---------------------------- MODULE Spec2Model ----------------------------
(***************************************************************************)
(* Model of src-tauri/src/lib.rs: the scan of a directory tree for string  *)
(* literals, template-literal segments and JSX text that hold a code point *)
(* of U+4E00..U+9FA5.                                                      *)
(*                                                                         *)
(* A text is a sequence of code points; its byte length is the sum of the  *)
(* UTF-8 widths of its code points, as for a Rust &str.                    *)
(***************************************************************************)
EXTENDS Integers, Sequences, FiniteSets, TLC

(***************************************************************************)
(* Code points                                                             *)
(***************************************************************************)
LF == 10
CR == 13
SP == 32
DQ == 34
DOLLAR == 36
SLASH == 47
SEMI == 59
LT == 60
GT == 62
BSLASH == 92
BTICK == 96
LowerA == 97
LowerN == 110
LowerU == 117
LBRACE == 123
RBRACE == 125
EAcute == 233
RangeLo == 19968
Zhong == 20013
RangeHi == 40869

\* The hex digits 4e2d of the escape that denotes Zhong.
Digit4 == 52
LowerE == 101
Digit2 == 50
LowerD == 100

\* str::len of one char: its UTF-8 width.
Width(c) == IF c < 128 THEN 1 ELSE IF c < 2048 THEN 2 ELSE IF c < 65536 THEN 3 ELSE 4

\* str::len: the byte length of a text.
RECURSIVE ByteLen(_)
ByteLen(s) == IF s = <<>> THEN 0 ELSE Width(Head(s)) + ByteLen(Tail(s))

\* The index of the first element of s equal to c, or 0.
RECURSIVE IndexOf(_, _, _)
IndexOf(s, c, i) ==
    IF i > Len(s) THEN 0
    ELSE IF s[i] = c THEN i
    ELSE IndexOf(s, c, i + 1)

(***************************************************************************)
(* get_line_col                                                            *)
(***************************************************************************)
\* str::lines: the text is split after every LF; the LF, and a CR right
\* before it, are not part of the line; no empty line follows a final LF.
\* A CR that no LF follows stays in its line.
RECURSIVE lines(_)
lines(s) ==
    IF s = <<>> THEN <<>>
    ELSE LET i == IndexOf(s, LF, 1) IN
         IF i = 0 THEN <<s>>
         ELSE LET body == SubSeq(s, 1, i - 1)
                  line == IF body # <<>> /\ body[Len(body)] = CR
                          THEN SubSeq(body, 1, Len(body) - 1)
                          ELSE body
              IN  <<line>> \o lines(SubSeq(s, i + 1, Len(s)))

NoLine == <<0, 0>>

\* The for loop of get_line_col from line number line_number (0-based) on,
\* NoLine when the loop ends without returning.
RECURSIVE LineColLoop(_, _, _, _)
LineColLoop(ls, line_number, line_start, offset) ==
    IF line_number >= Len(ls) THEN NoLine
    ELSE LET line_end == line_start + ByteLen(ls[line_number + 1]) + 1 IN
         IF offset >= line_start /\ offset < line_end
         THEN <<line_number + 1, offset - line_start + 1>>
         ELSE LineColLoop(ls, line_number + 1, line_end, offset)

\* Whether get_line_col leaves its loop and returns the fallback.
TakesFallback(source_text, offset) ==
    LineColLoop(lines(source_text), 0, 0, offset) = NoLine

get_line_col(source_text, offset) ==
    LET found == LineColLoop(lines(source_text), 0, 0, offset) IN
    IF found # NoLine THEN found
    ELSE <<Len(lines(source_text)) + 1, 1>>

(***************************************************************************)
(* The parser's output (oxc): decoded values and spans                     *)
(***************************************************************************)
HexDigit(c) == IF c >= 48 /\ c <= 57 THEN c - 48 ELSE c - 87

\* A literal's decoded value from its raw content: an escape gives the
\* character it denotes, a backslash before a line terminator gives
\* nothing, and in a template (eol_to_lf) a raw CR LF or CR gives LF.
RECURSIVE Decode(_, _)
Decode(raw, eol_to_lf) ==
    IF raw = <<>> THEN <<>>
    ELSE IF raw[1] = BSLASH /\ Len(raw) >= 2 THEN
        IF raw[2] = LowerN THEN <<LF>> \o Decode(SubSeq(raw, 3, Len(raw)), eol_to_lf)
        ELSE IF raw[2] = LowerU /\ Len(raw) >= 6 THEN
            <<4096 * HexDigit(raw[3]) + 256 * HexDigit(raw[4])
                + 16 * HexDigit(raw[5]) + HexDigit(raw[6])>>
            \o Decode(SubSeq(raw, 7, Len(raw)), eol_to_lf)
        ELSE IF raw[2] = CR /\ Len(raw) >= 3 /\ raw[3] = LF THEN
            Decode(SubSeq(raw, 4, Len(raw)), eol_to_lf)
        ELSE IF raw[2] = CR \/ raw[2] = LF THEN
            Decode(SubSeq(raw, 3, Len(raw)), eol_to_lf)
        ELSE <<raw[2]>> \o Decode(SubSeq(raw, 3, Len(raw)), eol_to_lf)
    ELSE IF eol_to_lf /\ raw[1] = CR THEN
        IF Len(raw) >= 2 /\ raw[2] = LF
        THEN <<LF>> \o Decode(SubSeq(raw, 3, Len(raw)), eol_to_lf)
        ELSE <<LF>> \o Decode(Tail(raw), eol_to_lf)
    ELSE <<raw[1]>> \o Decode(Tail(raw), eol_to_lf)

\* StringLiteral.value
StringValue(raw) == Decode(raw, FALSE)

IsHex(c) == (c >= 48 /\ c <= 57) \/ (c >= 97 /\ c <= 102)

\* Whether raw holds a backslash-u that four hex digits do not follow:
\* an escape a tagged template may hold, and that has no decoded value.
RECURSIVE HasInvalidEscape(_)
HasInvalidEscape(raw) ==
    IF Len(raw) < 2 THEN FALSE
    ELSE IF raw[1] # BSLASH THEN HasInvalidEscape(Tail(raw))
    ELSE IF raw[2] # LowerU THEN HasInvalidEscape(SubSeq(raw, 3, Len(raw)))
    ELSE IF Len(raw) >= 6 /\ \A i \in 3..6 : IsHex(raw[i])
         THEN HasInvalidEscape(SubSeq(raw, 7, Len(raw)))
         ELSE TRUE

None == <<>>
Some(v) == <<v>>

\* TemplateElement.value.cooked, an Option
TemplateCooked(raw) ==
    IF HasInvalidEscape(raw) THEN None ELSE Some(Decode(raw, TRUE))

\* An AST node: its span (the byte offsets start and end), its value where
\* it has one, the quasis of a template literal, and its child expressions
\* or JSX children.
Node(type, start, end, value, quasis, children) ==
    [type |-> type, start |-> start, end |-> end, value |-> value,
     quasis |-> quasis, children |-> children]

\* The nodes and the source text of a piece of syntax that starts at byte
\* offset start.  A piece of syntax is
\*   a string literal: raw is the content between the quotes;
\*   a template literal, or a tagged one (the tag is a): quasis are the raw
\*     contents of its static parts, exprs its interpolated expressions;
\*   a JSX element <a>...</a>: exprs are its children;
\*   a JSX text: raw is the text;
\* and Parse gives [node |-> its AST node, text |-> its source text].
Syntax(type, raw, quasis, exprs) ==
    [type |-> type, raw |-> raw, quasis |-> quasis, exprs |-> exprs]

Str(raw) == Syntax("StringLiteral", raw, <<>>, <<>>)
Tpl(quasis, exprs) == Syntax("TemplateLiteral", <<>>, quasis, exprs)
Tagged(quasis, exprs) == Syntax("TaggedTemplateExpression", <<>>, quasis, exprs)
Jsx(children) == Syntax("JSXElement", <<>>, <<>>, children)
JsxText(raw) == Syntax("JSXText", raw, <<>>, <<>>)

RECURSIVE Parse(_, _)
RECURSIVE ParseTemplateTail(_, _, _, _)
RECURSIVE ParseJsxChildren(_, _, _)

\* The part of a template literal from quasi i on: the quasi, then either
\* the closing backtick or ${ expression } and the rest.
ParseTemplateTail(syn, i, start, acc) ==
    LET raw == syn.quasis[i]
        after == start + ByteLen(raw)
        quasi == Node("TemplateElement", start, after, TemplateCooked(raw), <<>>, <<>>)
    IN  IF i > Len(syn.exprs)
        THEN [quasis |-> Append(acc.quasis, quasi),
              children |-> acc.children,
              text |-> acc.text \o raw \o <<BTICK>>]
        ELSE LET e == Parse(syn.exprs[i], after + 2) IN
             ParseTemplateTail(syn, i + 1, after + 2 + ByteLen(e.text) + 1,
                 [quasis |-> Append(acc.quasis, quasi),
                  children |-> Append(acc.children, e.node),
                  text |-> acc.text \o raw \o <<DOLLAR, LBRACE>>
                           \o e.text \o <<RBRACE>>])

\* The children of a JSX element from child i on: a text run stands as it
\* is, any other child is an expression container { expression }.
ParseJsxChildren(kids, start, acc) ==
    IF kids = <<>> THEN acc
    ELSE LET k == Head(kids) IN
         IF k.type = "JSXText"
         THEN ParseJsxChildren(Tail(kids), start + ByteLen(k.raw),
                  [children |-> Append(acc.children,
                                   Node("JSXText", start, start + ByteLen(k.raw),
                                        k.raw, <<>>, <<>>)),
                   text |-> acc.text \o k.raw])
         ELSE LET e == Parse(k, start + 1) IN
              ParseJsxChildren(Tail(kids), start + 1 + ByteLen(e.text) + 1,
                  [children |-> Append(acc.children, e.node),
                   text |-> acc.text \o <<LBRACE>> \o e.text \o <<RBRACE>>])

Parse(syn, start) ==
    IF syn.type = "StringLiteral"
    THEN [node |-> Node("StringLiteral", start, start + ByteLen(syn.raw) + 2,
                        StringValue(syn.raw), <<>>, <<>>),
          text |-> <<DQ>> \o syn.raw \o <<DQ>>]
    ELSE IF syn.type = "TemplateLiteral"
    THEN LET t == ParseTemplateTail(syn, 1, start + 1,
                      [quasis |-> <<>>, children |-> <<>>, text |-> <<BTICK>>])
         IN  [node |-> Node("TemplateLiteral", start, start + ByteLen(t.text),
                            <<>>, t.quasis, t.children),
              text |-> t.text]
    ELSE IF syn.type = "TaggedTemplateExpression"
    THEN LET t == ParseTemplateTail(syn, 1, start + 2,
                      [quasis |-> <<>>, children |-> <<>>, text |-> <<BTICK>>])
             end == start + 1 + ByteLen(t.text)
             quasi == Node("TemplateLiteral", start + 1, end, <<>>, t.quasis, t.children)
         IN  [node |-> Node("TaggedTemplateExpression", start, end, <<>>, <<>>, <<quasi>>),
              text |-> <<LowerA>> \o t.text]
    ELSE LET c == ParseJsxChildren(syn.exprs, start + 3,
                      [children |-> <<>>, text |-> <<LT, LowerA, GT>>])
         IN  [node |-> Node("JSXElement", start, start + ByteLen(c.text) + 4,
                            <<>>, <<>>, c.children),
              text |-> c.text \o <<LT, SLASH, LowerA, GT>>]

\* n copies of s.
RECURSIVE Repeat(_, _)
Repeat(s, n) == IF n = 0 THEN <<>> ELSE s \o Repeat(s, n - 1)

\* The statements of a file from byte offset start on: expression
\* statements, a semicolon and a line terminator between two of them.
RECURSIVE ParseStatements(_, _, _, _)
ParseStatements(stmts, eol, start, acc) ==
    IF stmts = <<>> THEN acc
    ELSE LET e == Parse(Head(stmts), start)
             sep == IF Len(stmts) > 1 THEN <<SEMI>> \o eol ELSE <<>>
         IN  ParseStatements(Tail(stmts), eol,
                 start + ByteLen(e.text) + ByteLen(sep),
                 [body |-> Append(acc.body, e.node),
                  text |-> acc.text \o e.text \o sep])

\* A file [lead, eol, stmts]: lead empty lines, then the statements; eol is
\* the file's line terminator.  parser.parse() gives ret.program.body for
\* the source text.
ParseFile(file) ==
    ParseStatements(file.stmts, file.eol, file.lead * ByteLen(file.eol),
                    [body |-> <<>>, text |-> Repeat(file.eol, file.lead)])

(***************************************************************************)
(* ChineseVisitor                                                          *)
(***************************************************************************)
\* chinese_regex, the class [\u4e00-\u9fa5]
IsChinese(c) == c >= RangeLo /\ c <= RangeHi

NoMatch == -1

\* Regex::find(value).map(|mat| mat.start()): the byte offset in value of
\* its first matching code point, NoMatch for None.
FindStart(value) ==
    IF \E i \in 1..Len(value) : IsChinese(value[i])
    THEN LET i == CHOOSE k \in 1..Len(value) :
                      /\ IsChinese(value[k])
                      /\ \A j \in 1..(k - 1) : ~IsChinese(value[j])
         IN  ByteLen(SubSeq(value, 1, i - 1))
    ELSE NoMatch

IsWhitespace(c) == (c >= 9 /\ c <= 13) \/ c = SP

\* str::trim
RECURSIVE trim_start(_)
trim_start(s) ==
    IF s # <<>> /\ IsWhitespace(Head(s)) THEN trim_start(Tail(s)) ELSE s

RECURSIVE trim_end(_)
trim_end(s) ==
    IF s # <<>> /\ IsWhitespace(s[Len(s)])
    THEN trim_end(SubSeq(s, 1, Len(s) - 1)) ELSE s

trim(s) == trim_end(trim_start(s))

ScanResult(file_path, line_col, text) ==
    [file_path |-> file_path, line |-> line_col[1], column |-> line_col[2],
     text |-> text]

\* The byte offset visit_string_literal hands to get_line_col.
StringOffset(lit) == lit.start + 1 + FindStart(lit.value)

visit_string_literal(res, file_path, source_text, lit) ==
    IF FindStart(lit.value) # NoMatch
    THEN Append(res, ScanResult(file_path,
                         get_line_col(source_text, StringOffset(lit)), lit.value))
    ELSE res

\* The byte offset visit_template_literal hands to get_line_col for a part
\* whose cooked value is Some.
QuasiOffset(part) == part.start + FindStart(part.value[1])

\* The loop of visit_template_literal over lit.quasis, from part i on.
RECURSIVE visit_quasis(_, _, _, _, _)
visit_quasis(res, file_path, source_text, quasis, i) ==
    IF i > Len(quasis) THEN res
    ELSE LET part == quasis[i] IN
         IF part.value # None /\ FindStart(part.value[1]) # NoMatch
         THEN visit_quasis(
                  Append(res, ScanResult(file_path,
                      get_line_col(source_text, QuasiOffset(part)), part.value[1])),
                  file_path, source_text, quasis, i + 1)
         ELSE visit_quasis(res, file_path, source_text, quasis, i + 1)

visit_template_literal(res, file_path, source_text, lit) ==
    visit_quasis(res, file_path, source_text, lit.quasis, 1)

\* The byte offset visit_jsx_text hands to get_line_col.
JsxOffset(text) == text.start + FindStart(text.value)

visit_jsx_text(res, file_path, source_text, text) ==
    IF FindStart(text.value) # NoMatch
    THEN LET trimmed_value == trim(text.value) IN
         IF trimmed_value # <<>>
         THEN Append(res, ScanResult(file_path,
                  get_line_col(source_text, JsxOffset(text)), trimmed_value))
         ELSE res
    ELSE res

\* The nodes a visit of node n leaves to be visited next, in order.  The
\* three methods the visitor overrides do not walk on: a string literal
\* and a JSX text have no children, and visit_template_literal returns
\* after its loop over the quasis.  Every other node takes the default
\* method of the Visit trait, which walks its children.
WalkChildren(n) ==
    IF n.type \in {"StringLiteral", "JSXText", "TemplateLiteral"}
    THEN <<>>
    ELSE n.children

\* What the visit of node n appends to the results.
VisitNode(res, file_path, source_text, n) ==
    IF n.type = "StringLiteral" THEN visit_string_literal(res, file_path, source_text, n)
    ELSE IF n.type = "TemplateLiteral"
    THEN visit_template_literal(res, file_path, source_text, n)
    ELSE IF n.type = "JSXText" THEN visit_jsx_text(res, file_path, source_text, n)
    ELSE res

\* visitor.visit_program: the depth-first traversal of the nodes in todo.
RECURSIVE visit_program(_, _, _, _)
visit_program(res, file_path, source_text, todo) ==
    IF todo = <<>> THEN res
    ELSE visit_program(VisitNode(res, file_path, source_text, Head(todo)),
                       file_path, source_text,
                       WalkChildren(Head(todo)) \o Tail(todo))

(***************************************************************************)
(* scan_directory                                                          *)
(***************************************************************************)
COMMA == 44
BANG == 33

\* exclude.split(','): the segments between the commas.
RECURSIVE split(_)
split(s) ==
    LET i == IndexOf(s, COMMA, 1) IN
    IF i = 0 THEN <<s>>
    ELSE <<SubSeq(s, 1, i - 1)>> \o split(SubSeq(s, i + 1, Len(s)))

NonEmpty(s) == s # <<>>

RECURSIVE MapTrim(_)
MapTrim(ss) == IF ss = <<>> THEN <<>> ELSE <<trim(Head(ss))>> \o MapTrim(Tail(ss))

\* exclude.split(',').map(|s| s.trim()).filter(|s| !s.is_empty())
Patterns(exclude) == SelectSeq(MapTrim(split(exclude)), NonEmpty)

\* WalkBuilder::add_ignore(path): the rules of the ignore file at path are
\* added to the builder; when no file can be read there, add_ignore
\* returns an error, which scan_directory drops, and nothing is added.
add_ignore(rules, path, files) ==
    IF \E f \in files : f.path = path
    THEN rules \cup UNION {f.lines : f \in {g \in files : g.path = path}}
    ELSE rules

\* The loop over the patterns: add_ignore(format!("!{}", pattern)).
RECURSIVE AddExcludes(_, _, _)
AddExcludes(rules, patterns, files) ==
    IF patterns = <<>> THEN rules
    ELSE AddExcludes(add_ignore(rules, <<BANG>> \o Head(patterns), files),
                     Tail(patterns), files)

\* SourceTypeOf with the extension compared whatever its case.
SourceTypeOfAnyCase(extension) ==
    IF extension \in {"js", "JS"}
    THEN Some([typescript |-> FALSE, jsx |-> FALSE, script |-> TRUE])
    ELSE IF extension = "jsx" THEN Some([typescript |-> FALSE, jsx |-> TRUE, script |-> FALSE])
    ELSE IF extension = "ts" THEN Some([typescript |-> TRUE, jsx |-> FALSE, script |-> FALSE])
    ELSE IF extension \in {"tsx", "Tsx"}
    THEN Some([typescript |-> TRUE, jsx |-> TRUE, script |-> FALSE])
    ELSE None

\* The source type of the match on the extension, with the flags its arm
\* sets, None for the arm that continues.
SourceTypeOf(extension) ==
    IF extension = "js" THEN Some([typescript |-> FALSE, jsx |-> FALSE, script |-> TRUE])
    ELSE IF extension = "jsx" THEN Some([typescript |-> FALSE, jsx |-> TRUE, script |-> FALSE])
    ELSE IF extension = "ts" THEN Some([typescript |-> TRUE, jsx |-> FALSE, script |-> FALSE])
    ELSE IF extension = "tsx" THEN Some([typescript |-> TRUE, jsx |-> TRUE, script |-> FALSE])
    ELSE None

\* NotADirectory with the check left out.
NotADirectoryUnchecked(is_dir) == FALSE

\* !path.is_dir()
NotADirectory(is_dir) == ~is_dir

\* HasParseErrors with the diagnostics not looked at.
HasParseErrorsUnchecked(entry) == FALSE

\* !ret.errors.is_empty()
HasParseErrors(entry) == entry.errors

\* What one iteration of the loop over the walk comes to for an entry.
Outcome(entry) ==
    IF entry.kind = "err" THEN "walk_error"
    ELSE IF entry.kind # "file" THEN "not_file"
    ELSE IF SourceTypeOf(entry.path.ext) = None THEN "extension"
    ELSE IF ~entry.readable THEN "unreadable"
    ELSE IF HasParseErrors(entry) THEN "parse_errors"
    ELSE "visit"

\* The results after the visit of a parsed file.
VisitEntry(res, entry) ==
    LET parsed == ParseFile(entry.content) IN
    visit_program(res, entry.path, parsed.text, parsed.body)

Ok(list) == [tag |-> "Ok", list |-> list]
Err == [tag |-> "Err", list |-> <<>>]
Pending == [tag |-> "Pending", list |-> <<>>]

(***************************************************************************)
(* State                                                                   *)
(***************************************************************************)
VARIABLES
    pc,           \* where the operation stands
    path_is_dir,  \* scan_directory: whether path is an existing directory
    exclude,      \* scan_directory: the exclude argument
    cwd_files,    \* the ignore files of the working directory
    rules,        \* the ignore rules added to walk_builder
    walked,       \* the entries the walk has yielded so far
    results,      \* the accumulator
    ret,          \* what scan_directory returned
    source_text,  \* the text of the file under visit, or given to get_line_col
    program,      \* the body of the parsed file under visit
    stack,        \* the nodes the traversal has still to visit
    offset,       \* the offset given to get_line_col
    line_col      \* what get_line_col returned

vars == <<pc, path_is_dir, exclude, cwd_files, rules, walked, results, ret,
          source_text, program, stack, offset, line_col>>

scan_vars == <<path_is_dir, exclude, cwd_files, rules, walked, ret>>
visit_vars == <<program, stack>>
lc_vars == <<offset, line_col>>

(***************************************************************************)
(* Bounds and inputs                                                       *)
(***************************************************************************)
MaxEntries == 2
MaxExcludeLen == 1

\* Every sequence of at most n elements of S.
RECURSIVE SeqsUpTo(_, _)
SeqsUpTo(S, n) ==
    IF n = 0 THEN {<<>>}
    ELSE LET shorter == SeqsUpTo(S, n - 1) IN
         shorter \cup {Append(q, x) : q \in shorter, x \in S}

ExcludeInputs == SeqsUpTo({COMMA, SP, LowerA}, MaxExcludeLen)

\* The working directory holds no ignore file, or a file named !a whose
\* one line is a.
CwdInputs == {{}, {[path |-> <<BANG, LowerA>>, lines |-> {<<LowerA>>}]}}

\* The rules of the tree's own ignore files: .gitignore holds b.
DirB == <<98>>
StandardRules == {DirB}

Root == <<>>
DirA == <<LowerA>>

\* A path under the root: the directory (Root, or a subdirectory's name)
\* and the extension of the file f in it.
Path(dir, ext) == [dir |-> dir, ext |-> ext]

Extensions == {"js", "jsx", "ts", "tsx", "JS", "Tsx", ""}

FilePaths == {Path(Root, x) : x \in Extensions}
             \cup {Path(DirA, "js"), Path(DirB, "js")}

LF_EOL == <<LF>>
CRLF_EOL == <<CR, LF>>

File(lead, eol, stmts) == [lead |-> lead, eol |-> eol, stmts |-> stmts]

\* "Z"; with Z the character Zhong, then
\* "a"
PlainFile == File(0, LF_EOL, <<Str(<<Zhong>>), Str(<<LowerA>>)>>)
\* <a> Z </a>
MarkupFile == File(0, LF_EOL, <<Jsx(<<JsxText(<<SP, Zhong, SP>>)>>)>>)

Entry(kind, path, readable, content, errors) ==
    [kind |-> kind, path |-> path, readable |-> readable,
     content |-> content, errors |-> errors]

Recognized(p) == p.ext \in {"js", "jsx", "ts", "tsx"}

\* What the walk can yield: an error, a directory, or a file.  A file that
\* scan_directory would read is unreadable, or has its content and
\* whether the parser reports errors for it; the markup file is a tsx file.
Entries ==
    {Entry("err", Path(Root, ""), FALSE, PlainFile, FALSE)}
    \cup {Entry("dir", Path(d, ""), FALSE, PlainFile, FALSE) : d \in {Root, DirA, DirB}}
    \cup {Entry("file", p, FALSE, PlainFile, FALSE) : p \in {q \in FilePaths : Recognized(q)}}
    \cup {Entry("file", p, TRUE, PlainFile, e) :
               p \in {q \in FilePaths : Recognized(q)}, e \in BOOLEAN}
    \cup {Entry("file", p, TRUE, PlainFile, FALSE) : p \in {q \in FilePaths : ~Recognized(q)}}
    \cup {Entry("file", Path(Root, "tsx"), TRUE, MarkupFile, FALSE)}

\* Whether the ignore rules keep the walk from yielding the entry: a rule
\* that is a directory's name ignores the directory and what is in it.
Ignored(rs, entry) == entry.kind # "err" /\ entry.path.dir \in rs

WalkedPaths == {walked[i].path : i \in {j \in 1..Len(walked) : walked[j].kind # "err"}}

\* The entries the walk can yield next.
CanYield(entry) ==
    /\ pc = "walk"
    /\ Len(walked) < MaxEntries
    /\ entry \in Entries
    /\ ~Ignored(rules \cup StandardRules, entry)
    /\ entry.kind # "err" => entry.path \notin WalkedPaths

(***************************************************************************)
(* scan_directory, one action for each way an iteration of its loop ends   *)
(***************************************************************************)
Init ==
    /\ pc = "start"
    /\ path_is_dir \in BOOLEAN
    /\ exclude \in ExcludeInputs
    /\ cwd_files \in CwdInputs
    /\ rules = {}
    /\ walked = <<>>
    /\ results = <<>>
    /\ ret = Pending
    /\ source_text = <<>>
    /\ program = <<>>
    /\ stack = <<>>
    /\ offset = 0
    /\ line_col = NoLine

\* return Err(format!("Path is not a directory: ..."))
ReturnNotADirectory ==
    /\ pc = "start"
    /\ NotADirectory(path_is_dir)
    /\ ret' = Err
    /\ pc' = "done"
    /\ UNCHANGED <<path_is_dir, exclude, cwd_files, rules, walked, results>>
    /\ UNCHANGED <<source_text, visit_vars, lc_vars>>

\* WalkBuilder::new, hidden(false), the exclude patterns, Regex::new (which
\* accepts this pattern), walk_builder.build()
BuildWalk ==
    /\ pc = "start"
    /\ ~NotADirectory(path_is_dir)
    /\ rules' = AddExcludes({}, Patterns(exclude), cwd_files)
    /\ pc' = "walk"
    /\ UNCHANGED <<path_is_dir, exclude, cwd_files, walked, results, ret>>
    /\ UNCHANGED <<source_text, visit_vars, lc_vars>>

\* Err(_) => continue
SkipWalkError ==
    \E entry \in Entries :
        /\ CanYield(entry)
        /\ Outcome(entry) = "walk_error"
        /\ walked' = Append(walked, entry)
        /\ UNCHANGED <<pc, path_is_dir, exclude, cwd_files, rules, results, ret>>
        /\ UNCHANGED <<source_text, visit_vars, lc_vars>>

\* if !file_path.is_file() { continue; }
SkipNotFile ==
    \E entry \in Entries :
        /\ CanYield(entry)
        /\ Outcome(entry) = "not_file"
        /\ walked' = Append(walked, entry)
        /\ UNCHANGED <<pc, path_is_dir, exclude, cwd_files, rules, results, ret>>
        /\ UNCHANGED <<source_text, visit_vars, lc_vars>>

\* _ => continue, for an extension that is none of the four
SkipExtension ==
    \E entry \in Entries :
        /\ CanYield(entry)
        /\ Outcome(entry) = "extension"
        /\ walked' = Append(walked, entry)
        /\ UNCHANGED <<pc, path_is_dir, exclude, cwd_files, rules, results, ret>>
        /\ UNCHANGED <<source_text, visit_vars, lc_vars>>

\* Err(_) => continue, for a file read_to_string cannot read
SkipUnreadable ==
    \E entry \in Entries :
        /\ CanYield(entry)
        /\ Outcome(entry) = "unreadable"
        /\ walked' = Append(walked, entry)
        /\ UNCHANGED <<pc, path_is_dir, exclude, cwd_files, rules, results, ret>>
        /\ UNCHANGED <<source_text, visit_vars, lc_vars>>

\* if !ret.errors.is_empty() { continue; }
SkipParseErrors ==
    \E entry \in Entries :
        /\ CanYield(entry)
        /\ Outcome(entry) = "parse_errors"
        /\ walked' = Append(walked, entry)
        /\ UNCHANGED <<pc, path_is_dir, exclude, cwd_files, rules, results, ret>>
        /\ UNCHANGED <<source_text, visit_vars, lc_vars>>

\* An iteration that reaches visitor.visit_program.
VisitFile ==
    \E entry \in Entries :
        /\ CanYield(entry)
        /\ Outcome(entry) = "visit"
        /\ walked' = Append(walked, entry)
        /\ results' = VisitEntry(results, entry)
        /\ UNCHANGED <<pc, path_is_dir, exclude, cwd_files, rules, ret>>
        /\ UNCHANGED <<source_text, visit_vars, lc_vars>>

\* The walk is over: Ok(final_results)
ReturnOk ==
    /\ pc = "walk"
    /\ ret' = Ok(results)
    /\ pc' = "done"
    /\ UNCHANGED <<path_is_dir, exclude, cwd_files, rules, walked, results>>
    /\ UNCHANGED <<source_text, visit_vars, lc_vars>>

Next ==
    \/ ReturnNotADirectory
    \/ BuildWalk
    \/ SkipWalkError
    \/ SkipNotFile
    \/ SkipExtension
    \/ SkipUnreadable
    \/ SkipParseErrors
    \/ VisitFile
    \/ ReturnOk

Spec == Init /\ [][Next]_vars

(***************************************************************************)
(* The visit of one parsed file, one action for each visitor method        *)
(***************************************************************************)
MaxBlank == 12
MaxUnits == 2

\* Every concatenation of at most n of the texts in units.
RECURSIVE Contents(_, _)
Contents(units, n) ==
    IF n = 0 THEN {<<>>}
    ELSE LET shorter == Contents(units, n - 1) IN
         shorter \cup {c \o u : c \in shorter, u \in units}

\* \n, the escape of Zhong, and a backslash-u no hex digits follow
EscapeN == <<BSLASH, LowerN>>
EscapeZhong == <<BSLASH, LowerU, Digit4, LowerE, Digit2, LowerD>>
EscapeBad == <<BSLASH, LowerU>>

\* What a string literal is made of: characters of one, two and three
\* bytes, escapes, and a line continuation.
StringUnits(eol) ==
    {<<LowerA>>, <<EAcute>>, <<Zhong>>, EscapeN, EscapeZhong, <<BSLASH>> \o eol}
TemplateUnits(eol) == {<<LowerA>>, <<Zhong>>, EscapeN, eol}
JsxUnits(eol) == {<<LowerA>>, <<Zhong>>, <<SP>>, eol}

\* The expressions inside ${ } and { }.
Inner ==
    {Str(<<Zhong>>), Str(<<LowerA>>), Tpl(<<<<Zhong>>>>, <<>>),
     Jsx(<<JsxText(<<Zhong>>)>>)}

Statements(eol) ==
    {Str(raw) : raw \in Contents(StringUnits(eol), MaxUnits)}
    \cup {Tpl(<<q>>, <<>>) : q \in Contents(TemplateUnits(eol), MaxUnits)}
    \cup {Tpl(<<q1, q2>>, <<e>>) :
               q1 \in Contents(TemplateUnits(eol), 1),
               q2 \in Contents(TemplateUnits(eol), 1), e \in Inner}
    \cup {Tagged(<<q>>, <<>>) : q \in Contents({<<Zhong>>, EscapeBad}, MaxUnits)}
    \cup {Jsx(<<JsxText(t)>>) : t \in Contents(JsxUnits(eol), MaxUnits) \ {<<>>}}
    \cup {Jsx(<<JsxText(t), e>>) :
               t \in Contents(JsxUnits(eol), 1) \ {<<>>}, e \in Inner}

\* The statement that may follow the first one.
SecondStatements == {Str(<<Zhong>>), Tpl(<<<<Zhong>>>>, <<>>)}

\* The files with the line terminator eol: empty lines, a statement, and
\* maybe a second one.
FilesWith(eol) ==
    {File(lead, eol, <<s>>) : lead \in 0..MaxBlank, s \in Statements(eol)}
    \cup {File(lead, eol, <<s, t>>) :
               lead \in 0..MaxBlank, s \in Statements(eol), t \in SecondStatements}

VisitedFiles == FilesWith(LF_EOL) \cup FilesWith(CRLF_EOL)

VisitedPath == Path(Root, "tsx")

InitVisit ==
    /\ pc = "visit"
    /\ \E file \in VisitedFiles :
           /\ source_text = ParseFile(file).text
           /\ program = ParseFile(file).body
           /\ stack = ParseFile(file).body
    /\ results = <<>>
    /\ path_is_dir = TRUE
    /\ exclude = <<>>
    /\ cwd_files = {}
    /\ rules = {}
    /\ walked = <<>>
    /\ ret = Pending
    /\ offset = 0
    /\ line_col = NoLine

\* The traversal reaches a string literal.
VisitStringLiteral ==
    /\ pc = "visit"
    /\ stack # <<>>
    /\ Head(stack).type \in {"StringLiteral"}
    /\ results' = VisitNode(results, VisitedPath, source_text, Head(stack))
    /\ stack' = WalkChildren(Head(stack)) \o Tail(stack)
    /\ UNCHANGED <<pc, source_text, program, scan_vars, lc_vars>>

\* The traversal reaches a template literal.
VisitTemplateLiteral ==
    /\ pc = "visit"
    /\ stack # <<>>
    /\ Head(stack).type \in {"TemplateLiteral"}
    /\ results' = VisitNode(results, VisitedPath, source_text, Head(stack))
    /\ stack' = WalkChildren(Head(stack)) \o Tail(stack)
    /\ UNCHANGED <<pc, source_text, program, scan_vars, lc_vars>>

\* The traversal reaches a JSX text.
VisitJsxText ==
    /\ pc = "visit"
    /\ stack # <<>>
    /\ Head(stack).type \in {"JSXText"}
    /\ results' = VisitNode(results, VisitedPath, source_text, Head(stack))
    /\ stack' = WalkChildren(Head(stack)) \o Tail(stack)
    /\ UNCHANGED <<pc, source_text, program, scan_vars, lc_vars>>

\* The traversal reaches a node whose visit method the visitor does not
\* override.
VisitOther ==
    /\ pc = "visit"
    /\ stack # <<>>
    /\ Head(stack).type \in {"JSXElement", "TaggedTemplateExpression"}
    /\ results' = VisitNode(results, VisitedPath, source_text, Head(stack))
    /\ stack' = WalkChildren(Head(stack)) \o Tail(stack)
    /\ UNCHANGED <<pc, source_text, program, scan_vars, lc_vars>>

\* visit_program returns.
VisitDone ==
    /\ pc = "visit"
    /\ stack = <<>>
    /\ pc' = "visited"
    /\ UNCHANGED <<results, source_text, program, stack, scan_vars, lc_vars>>

NextVisit ==
    \/ VisitStringLiteral
    \/ VisitTemplateLiteral
    \/ VisitJsxText
    \/ VisitOther
    \/ VisitDone

SpecVisit == InitVisit /\ [][NextVisit]_vars

(***************************************************************************)
(* get_line_col on its own                                                 *)
(***************************************************************************)
MaxTextLen == 4
MaxBeyond == 2

InitLineCol ==
    /\ pc = "lc_call"
    /\ source_text \in SeqsUpTo({LowerA, Zhong, CR, LF}, MaxTextLen)
    /\ offset \in 0..(MaxTextLen * 3 + MaxBeyond)
    /\ offset <= ByteLen(source_text) + MaxBeyond
    /\ line_col = NoLine
    /\ results = <<>>
    /\ program = <<>>
    /\ stack = <<>>
    /\ path_is_dir = TRUE
    /\ exclude = <<>>
    /\ cwd_files = {}
    /\ rules = {}
    /\ walked = <<>>
    /\ ret = Pending

GetLineCol ==
    /\ pc = "lc_call"
    /\ line_col' = get_line_col(source_text, offset)
    /\ pc' = "lc_done"
    /\ UNCHANGED <<offset, source_text, results, visit_vars, scan_vars>>

NextLineCol == GetLineCol

SpecLineCol == InitLineCol /\ [][NextLineCol]_vars

(***************************************************************************)
(* What the claims speak of                                                *)
(***************************************************************************)
\* The 1-based line and the 1-based byte column of byte offset off in text:
\* one more than the LFs before off, and one more than the bytes between
\* the last LF before off (or the start of the text) and off.
RECURSIVE PositionFrom(_, _, _, _, _)
PositionFrom(s, off, pos, line, line_start) ==
    IF s = <<>> \/ off < pos + Width(Head(s))
    THEN <<line, off - line_start + 1>>
    ELSE IF Head(s) = LF
    THEN PositionFrom(Tail(s), off, pos + 1, line + 1, pos + 1)
    ELSE PositionFrom(Tail(s), off, pos + Width(Head(s)), line, line_start)

Position(text, off) == PositionFrom(text, off, 0, 1, 0)

\* The number of lines of a text: its LFs, and one more for what follows
\* the last LF.
LineCount(text) ==
    Cardinality({i \in 1..Len(text) : text[i] = LF})
    + (IF text # <<>> /\ text[Len(text)] # LF THEN 1 ELSE 0)

\* The byte offset in text of code point i.
StartOf(text, i) == ByteLen(SubSeq(text, 1, i - 1))

\* The byte offset of the first matching code point of the source text in
\* the span start..end, NoMatch when the span holds none.
FirstMatchIn(text, start, end) ==
    LET hits == {i \in 1..Len(text) :
                    /\ IsChinese(text[i])
                    /\ StartOf(text, i) >= start
                    /\ StartOf(text, i) < end}
    IN  IF hits = {} THEN NoMatch
        ELSE StartOf(text, CHOOSE i \in hits : \A j \in hits : i <= j)

\* The index in value of its first matching code point, counted in
\* characters from 0.
CharOffset(value) ==
    (CHOOSE k \in 1..Len(value) :
         IsChinese(value[k]) /\ \A j \in 1..(k - 1) : ~IsChinese(value[j])) - 1

HasMatch(value) == \E i \in 1..Len(value) : IsChinese(value[i])

\* A candidate: a string literal, a JSX text, or a template element whose
\* cooked value is Some.  Its value, and the text reported for it.
IsCandidate(n) ==
    \/ n.type \in {"StringLiteral", "JSXText"}
    \/ n.type = "TemplateElement" /\ n.value # None

ValueOf(n) == IF n.type = "TemplateElement" THEN n.value[1] ELSE n.value

ReportedText(n) == IF n.type = "JSXText" THEN trim(n.value) ELSE ValueOf(n)

IsMatching(n) == IsCandidate(n) /\ HasMatch(ValueOf(n))

\* The nodes of a tree in depth-first order, the template elements among
\* them.  With deep, the interpolated expressions of a template literal
\* are entered: every node of the file.  Without, only the nodes the
\* traversal of WalkChildren reaches.
RECURSIVE Nodes(_, _)
Nodes(todo, deep) ==
    IF todo = <<>> THEN <<>>
    ELSE LET n == Head(todo)
             below == IF deep THEN n.children ELSE WalkChildren(n)
         IN  <<n>> \o Nodes(n.quasis \o below \o Tail(todo), deep)

MatchingIn(nodes) == SelectSeq(nodes, IsMatching)

\* The matching candidates of the file at every depth, and those the
\* traversal hands to a visitor method.
AllMatching == MatchingIn(Nodes(program, TRUE))
VisitedMatching == MatchingIn(Nodes(program, FALSE))

\* How many elements of a sequence have the text.
CountText(texts, t) == Cardinality({i \in 1..Len(texts) : texts[i] = t})

\* The offsets a visit of node n hands to get_line_col.
LookupOffsets(n) ==
    IF n.type = "StringLiteral" /\ HasMatch(n.value) THEN {StringOffset(n)}
    ELSE IF n.type = "JSXText" /\ HasMatch(n.value) THEN {JsxOffset(n)}
    ELSE IF n.type = "TemplateLiteral"
    THEN {QuasiOffset(n.quasis[i]) :
              i \in {j \in 1..Len(n.quasis) : IsMatching(n.quasis[j])}}
    ELSE {}

\* The results with the path.
ResultsOf(list, path) ==
    LET HasPath(r) == r.file_path = path IN SelectSeq(list, HasPath)

\* Whether an ignore pattern excludes a path: a pattern that is a name
\* excludes the directory of that name and the files in it.
Excludes(pattern, path) == pattern = path.dir

(***************************************************************************)
(* Claims                                                                  *)
(***************************************************************************)
\* C1: when the traversal visits a string literal whose decoded value holds
\* a matching code point, the result it appends has as its column the
\* column of the literal's opening quote, plus the character offset of the
\* first matching code point in the decoded value, plus one.
C1_ColumnIsQuotePlusCharOffset ==
    [][(/\ pc = "visit"
        /\ stack # <<>>
        /\ Head(stack).type = "StringLiteral"
        /\ HasMatch(Head(stack).value))
       => /\ Len(results') = Len(results) + 1
          /\ results'[Len(results')].column =
                 Position(source_text, Head(stack).start)[2]
                 + CharOffset(Head(stack).value) + 1]_vars

\* C2: once the file is traversed, every candidate of the file with a
\* matching code point, at every nesting depth, the interpolated
\* expressions of template literals included, has its result: each text
\* is reported as often as matching candidates have it.
C2_EveryDepthIsVisited ==
    pc = "visited" =>
        /\ Len(results) = Len(AllMatching)
        /\ \A k \in 1..Len(AllMatching) :
               CountText([i \in 1..Len(results) |-> results[i].text],
                         ReportedText(AllMatching[k]))
               = CountText([i \in 1..Len(AllMatching) |-> ReportedText(AllMatching[i])],
                           ReportedText(AllMatching[k]))

\* C3: no result of scan_directory has a path that a non-empty, trimmed
\* segment of the exclude string excludes.
C3_ExcludedNeverInResults ==
    pc = "done" =>
        \A i \in 1..Len(ret.list) : \A k \in 1..Len(Patterns(exclude)) :
            ~Excludes(Patterns(exclude)[k], ret.list[i].file_path)

\* C4: every result points at the first matching code point of a
\* candidate with its text: its line and column are those of the first
\* byte of the first code point of U+4E00..U+9FA5 in the candidate's span
\* of the source text.
C4_PointsAtFirstMatch ==
    \A i \in 1..Len(results) :
        pc \in {"visit", "visited"} =>
            \E k \in 1..Len(AllMatching) :
                LET c == AllMatching[k]
                    first == FirstMatchIn(source_text, c.start, c.end)
                IN  /\ ReportedText(c) = results[i].text
                    /\ first # NoMatch
                    /\ <<results[i].line, results[i].column>>
                           = Position(source_text, first)

\* C5: a walked file for which the parser reports errors has no result,
\* every walked file that is read and parsed without errors has all the
\* results of its visit, whatever was walked before or after it, and the
\* scan of an existing directory returns Ok with the accumulated results.
C5_ParseErrorsSkipTheFileOnly ==
    /\ \A i \in 1..Len(walked) :
           LET e == walked[i] IN
           (e.kind = "file" /\ Recognized(e.path) /\ e.readable) =>
               ResultsOf(results, e.path)
                   = IF e.errors THEN <<>> ELSE VisitEntry(<<>>, e)
    /\ (pc = "done" /\ path_is_dir) => ret = Ok(results)

\* C5's case: a file with parse errors was walked, then a file that has
\* results, and the scan returned Ok.
C5_Witness ==
    /\ pc = "done"
    /\ ret.tag = "Ok"
    /\ Len(walked) >= 2
    /\ walked[1].kind = "file" /\ Recognized(walked[1].path)
    /\ walked[1].readable /\ walked[1].errors
    /\ ~walked[2].errors
    /\ ResultsOf(ret.list, walked[2].path) # <<>>

\* C6: when the path is no directory, nothing is walked, no rule is added,
\* no result is accumulated, and what is returned is the error, with no
\* list.
C6_NotADirectoryFailsFast ==
    ~path_is_dir =>
        /\ walked = <<>>
        /\ results = <<>>
        /\ rules = {}
        /\ pc # "walk"
        /\ pc = "done" => ret = Err

\* C6's case: the path was no directory and scan_directory returned.
C6_Witness == ~path_is_dir /\ pc = "done" /\ ret.tag = "Err"

\* C7: no result has the path of a walked file whose extension is not
\* exactly js, jsx, ts or tsx, and the scan returns Ok all the same.
C7_UnrecognizedExtensionNoResult ==
    \A i \in 1..Len(walked) :
        (walked[i].kind = "file"
         /\ walked[i].path.ext \notin {"js", "jsx", "ts", "tsx"}) =>
            /\ ResultsOf(results, walked[i].path) = <<>>
            /\ pc = "done" =>
                   ret.tag = "Ok" /\ ResultsOf(ret.list, walked[i].path) = <<>>

\* C7's case: a readable file named f.JS with a matching literal and a
\* file with results were walked, and the scan returned.
C7_Witness ==
    /\ pc = "done"
    /\ Len(walked) >= 2
    /\ \E i \in 1..Len(walked) :
           /\ walked[i].kind = "file" /\ walked[i].path.ext = "JS"
           /\ walked[i].readable /\ walked[i].content = PlainFile
    /\ ret.list # <<>>

\* C8: once the file is traversed, the list holds one result for each
\* visited candidate with a matching code point, and no two results have
\* the same file, line and column.
C8_OneResultPerCandidate ==
    pc = "visited" =>
        /\ Len(results) = Len(VisitedMatching)
        /\ \A i \in 1..Len(results) :
               results[i].text = ReportedText(VisitedMatching[i])
        /\ \A i, j \in 1..Len(results) :
               i # j => <<results[i].file_path, results[i].line, results[i].column>>
                        # <<results[j].file_path, results[j].line, results[j].column>>

\* C9: for an offset smaller than the text's byte length, get_line_col
\* returns one more than the LFs before the offset and one more than the
\* bytes since the last LF; a line beyond the text's lines, the fallback,
\* is returned only for an offset at or beyond the end of the text.
C9_LineColOfEveryOffset ==
    pc = "lc_done" =>
        /\ offset < ByteLen(source_text) =>
               line_col = Position(source_text, offset)
        /\ line_col[1] > LineCount(source_text) =>
               offset >= ByteLen(source_text)

\* C10: every offset that the visit of the next node hands to
\* get_line_col lies within the byte length of the file's text, and
\* get_line_col does not take its fallback for it.
C10_OffsetWithinFile ==
    (pc = "visit" /\ stack # <<>>) =>
        \A off \in LookupOffsets(Head(stack)) :
            /\ off < ByteLen(source_text)
            /\ ~TakesFallback(source_text, off)

=============================================================================
